---- MODULE Spec2Model ----
(***************************************************************************)
(* The Evolution of Todo: the task store of the web application           *)
(* (TaskService over the tasks table, plan.md Phase II), the chat tool     *)
(* update_task that calls it (plan.md Phase III) and the console           *)
(* application's Task / TaskStorage / CommandHandler (plan.md Phase I).    *)
(***************************************************************************)
EXTENDS Integers, Sequences, FiniteSets, TLC

VARIABLES
    tasks,      \* web: the tasks table, task id -> row
    idCount,    \* web: how many ids uuid4 has handed out
    clock,      \* the time datetime.utcnow() / datetime.now() returns
    last,       \* the request served last and its answer
    c_tasks,    \* console: TaskStorage._tasks
    c_next_id,  \* console: TaskStorage._next_id
    inflight,   \* web: per caller, the update it is in the middle of
    base,       \* web: the table when the first of the updates in flight began
    layout,     \* frontend: DashboardLayout's state and what it asked the router
    dashPage,   \* frontend: the dashboard page's showTaskForm / editingTask
    taskForm,   \* frontend: TaskForm's error and the mutation it has in flight
    taskList,   \* frontend: TaskList's query, selectedIndex and last mutate call
    chat,       \* frontend: ChatPage's state and the stream it is consuming
    sh          \* the deployment test script: position, ERRORS, processes, output

webVars == <<tasks, idCount>>
consoleVars == <<c_tasks, c_next_id>>
concVars == <<inflight, base>>
frontVars == <<layout, dashPage, taskForm, taskList, chat, sh>>
backVars == <<tasks, idCount, clock, last, c_tasks, c_next_id, inflight, base>>
vars == <<backVars, frontVars>>

\* ------------------------------------------------------------------ bounds
MaxTasks == 2
MaxDetailed == 1
MaxClock == 1
MaxSends == 2
MaxEvents == 2

\* ------------------------------------------------------- program constants
TitleMinLength == 1
TitleMaxLength == 200
DescriptionMaxLength == 1000
DefaultLimit == 20

\* ------------------------------------------------------------------ values
\* Optional[...] columns: None is the empty tuple, a value v is <<v>>.
None == <<>>
Some(v) == <<v>>

TaskStatus == {"pending", "in_progress", "done"}
TaskPriority == {"low", "medium", "high"}

Owners == {"A", "B"}
TaskIds == 1..MaxTasks

\* Titles are character sequences: empty, one blank, one letter.
Titles == {<<>>, <<" ">>, <<"a">>}
Descriptions == {<<"d">>}

\* ----------------------------------------------------------- TaskCreate
Pending == Some("pending")
InProgress == Some("in_progress")
Done == Some("done")

\* TaskCreate (= TaskBase): the request bodies a caller can send.  A field
\* that is absent from the record is unset and takes the model's default.
CreateInputs ==
    {[title |-> t] : t \in Titles}
        \cup {[title |-> <<"a">>, status |-> s] : s \in {"done", "in_progress"}}
        \cup {[title |-> <<"a">>, description |-> Some(d)] : d \in Descriptions}

FieldOr(inp, f, default) == IF f \in DOMAIN inp THEN inp[f] ELSE default

\* Field(min_length=1, max_length=200) on title.
ValidTitle(t) == Len(t) >= TitleMinLength /\ Len(t) <= TitleMaxLength

\* TaskBase's constraints: title, max_length=1000 on description, the enums.
ValidCreate(inp) ==
    /\ "title" \in DOMAIN inp
    /\ ValidTitle(inp.title)
    /\ ("description" \in DOMAIN inp /\ inp.description # None
            => Len(inp.description[1]) <= DescriptionMaxLength)
    /\ ("status" \in DOMAIN inp => inp.status \in TaskStatus)
    /\ ("priority" \in DOMAIN inp => inp.priority \in TaskPriority)

\* Task(user_id=user_id, **task_in.model_dump()): the row a create inserts.
\* Every column the Python object can hold None in is an Optional here.
NewTask(id, user_id, inp, now) ==
    [id |-> id,
     user_id |-> user_id,
     title |-> Some(inp.title),
     description |-> FieldOr(inp, "description", None),
     status |-> Some(FieldOr(inp, "status", "pending")),
     priority |-> Some(FieldOr(inp, "priority", "medium")),
     due_date |-> FieldOr(inp, "due_date", None),
     tags |-> FieldOr(inp, "tags", <<>>),
     created_at |-> now,
     updated_at |-> now,
     completed_at |-> None]

\* TaskService.create behind the request's validation.
CreateOutcome(store, id, user_id, inp, now) ==
    IF ~ValidCreate(inp)
    THEN [res |-> "invalid", store |-> store]
    ELSE [res |-> "ok",
          store |-> [i \in DOMAIN store \cup {id} |->
                        IF i = id THEN NewTask(id, user_id, inp, now) ELSE store[i]]]

\* Mutant of GetTask: the user_id condition left out of the select.
GetTask_AnyOwner(store, task_id, user_id) ==
    IF task_id \in DOMAIN store THEN Some(store[task_id]) ELSE None

\* TaskService.get: select ... where id = task_id and user_id = user_id.
GetTask(store, task_id, user_id) ==
    IF task_id \in DOMAIN store /\ store[task_id].user_id = user_id
    THEN Some(store[task_id])
    ELSE None

\* ----------------------------------------------------------- TaskUpdate
\* TaskUpdate: every field Optional, None by default; a field absent from the
\* record is unset (model_dump(exclude_unset=True) leaves it out).
Updates ==
    {[status |-> InProgress]}
        \cup {[title |-> Some(t)] : t \in {<<>>, <<"a">>}}
        \cup {[description |-> Some(d)] : d \in Descriptions}
        \cup {[title |-> Some(<<>>), status |-> Done],
              [description |-> Some(<<"d">>), status |-> Some("archived")]}

ValidUpdate(upd) ==
    /\ ("title" \in DOMAIN upd /\ upd.title # None => ValidTitle(upd.title[1]))
    /\ ("status" \in DOMAIN upd /\ upd.status # None => upd.status[1] \in TaskStatus)
    /\ ("priority" \in DOMAIN upd /\ upd.priority # None
            => upd.priority[1] \in TaskPriority)

\* Mutant of Modify: completed_at is stamped only when it is not yet set.
Modify_KeepCompleted(task, upd, now1, now2) ==
    LET set == [f \in DOMAIN task |-> IF f \in DOMAIN upd THEN upd[f] ELSE task[f]]
        stamped == [set EXCEPT !.updated_at = now1]
    IN IF "status" \in DOMAIN upd /\ upd.status = Done /\ task.completed_at = None
       THEN [stamped EXCEPT !.completed_at = Some(now2)]
       ELSE stamped

\* Mutant of Modify: updated_at is not stamped.
Modify_KeepUpdatedAt(task, upd, now1, now2) ==
    LET set == [f \in DOMAIN task |-> IF f \in DOMAIN upd THEN upd[f] ELSE task[f]]
    IN IF "status" \in DOMAIN upd /\ upd.status = Done
       THEN [set EXCEPT !.completed_at = Some(now2)]
       ELSE set

\* The body of TaskService.update between the read and the commit: setattr
\* of every set field, updated_at, and completed_at when status is DONE.
Modify(task, upd, now1, now2) ==
    LET set == [f \in DOMAIN task |-> IF f \in DOMAIN upd THEN upd[f] ELSE task[f]]
        stamped == [set EXCEPT !.updated_at = now1]
    IN IF "status" \in DOMAIN upd /\ upd.status = Done
       THEN [stamped EXCEPT !.completed_at = Some(now2)]
       ELSE stamped

\* session.commit(): the unit of work writes the columns whose value differs
\* from the loaded one to the row with that primary key.  title is NOT NULL;
\* a row that is gone makes the UPDATE match nothing.
Commit(store, loaded, modified) ==
    IF loaded.id \notin DOMAIN store \/ modified.title = None
    THEN [res |-> "error", store |-> store]
    ELSE [res |-> "ok",
          store |-> [store EXCEPT ![loaded.id] =
                        [f \in DOMAIN @ |->
                            IF modified[f] # loaded[f] THEN modified[f] ELSE @[f]]]]

\* Mutant of UpdateOutcome: the row is read and updated_at written before the
\* body is validated.
UpdateOutcome_StampFirst(store, task_id, user_id, upd, now1, now2) ==
    LET found == GetTask(store, task_id, user_id)
    IN IF found = None
       THEN [res |-> "notfound", store |-> store]
       ELSE IF ~ValidUpdate(upd)
            THEN [res |-> "invalid",
                  store |-> [store EXCEPT ![task_id].updated_at = now1]]
            ELSE Commit(store, found[1], Modify(found[1], upd, now1, now2))

\* Mutant of UpdateOutcome: a task that is done takes no other status.
UpdateOutcome_DoneIsFinal(store, task_id, user_id, upd, now1, now2) ==
    IF ~ValidUpdate(upd)
    THEN [res |-> "invalid", store |-> store]
    ELSE LET found == GetTask(store, task_id, user_id)
         IN IF found = None
            THEN [res |-> "notfound", store |-> store]
            ELSE IF found[1].status = Done /\ "status" \in DOMAIN upd /\ upd.status # Done
                 THEN [res |-> "invalid", store |-> store]
                 ELSE Commit(store, found[1], Modify(found[1], upd, now1, now2))

\* TaskService.update behind the request's validation, run without
\* interruption.
UpdateOutcome(store, task_id, user_id, upd, now1, now2) ==
    IF ~ValidUpdate(upd)
    THEN [res |-> "invalid", store |-> store]
    ELSE LET found == GetTask(store, task_id, user_id)
         IN IF found = None
            THEN [res |-> "notfound", store |-> store]
            ELSE Commit(store, found[1], Modify(found[1], upd, now1, now2))

\* Mutant of DeleteOutcome: the task is looked up by id alone.
DeleteOutcome_AnyOwner(store, task_id, user_id) ==
    IF task_id \notin DOMAIN store
    THEN [res |-> "notfound", store |-> store]
    ELSE [res |-> "ok", store |-> [i \in DOMAIN store \ {task_id} |-> store[i]]]

\* TaskService.delete.
DeleteOutcome(store, task_id, user_id) ==
    IF GetTask(store, task_id, user_id) = None
    THEN [res |-> "notfound", store |-> store]
    ELSE [res |-> "ok", store |-> [i \in DOMAIN store \ {task_id} |-> store[i]]]

\* The fields TaskUpdate declares.
TaskUpdateFields == {"title", "description", "status", "priority", "due_date", "tags"}

\* Mutant of ParseTaskUpdate: keys the model does not declare are kept.
ParseTaskUpdate_KeepExtra(body) == body

\* TaskUpdate(**body): a key of the request body that is not a field of
\* TaskUpdate is ignored (the model does not forbid extra keys), the others
\* are the fields that count as set.
ParseTaskUpdate(body) == [f \in DOMAIN body \cap TaskUpdateFields |-> body[f]]

\* Request bodies that also name columns TaskUpdate does not have.
PatchBodies ==
    {[user_id |-> "B", title |-> Some(<<"a">>)],
     [id |-> 2, status |-> Done],
     [created_at |-> 1, user_id |-> "A", description |-> Some(<<"d">>)]}

\* TaskService.update on the parsed body.
PatchOutcome(store, task_id, user_id, body, now1, now2) ==
    UpdateOutcome(store, task_id, user_id, ParseTaskUpdate(body), now1, now2)

\* TaskList's toggleMutation: api.updateTask(task.id, {status: 'done'}) for a
\* task shown as not done, {status: 'pending'} for one shown as done.
MarkDoneOutcome(store, task_id, user_id, now1, now2) ==
    UpdateOutcome(store, task_id, user_id, [status |-> Done], now1, now2)

MarkPendingOutcome(store, task_id, user_id, now) ==
    UpdateOutcome(store, task_id, user_id, [status |-> Pending], now, now)

\* Mutant of ListRows: the user_id condition left out of the select.
ListRows_AllOwners(store, user_id, status) ==
    {i \in DOMAIN store : status # None => store[i].status = status}

\* Mutant of ListRows: the status condition left out of the select.
ListRows_AnyStatus(store, user_id, status) ==
    {i \in DOMAIN store : store[i].user_id = user_id}

\* TaskService.list: where user_id = user_id, and status = status when one
\* is given.
ListRows(store, user_id, status) ==
    {i \in DOMAIN store :
        /\ store[i].user_id = user_id
        /\ (status # None => store[i].status = status)}

\* The select has no ORDER BY: the rows come in any order.
Orderings(S) ==
    {ord \in [1..Cardinality(S) -> S] : \A a, b \in 1..Cardinality(S) : a # b => ord[a] # ord[b]}

\* statement.offset(offset).limit(limit)
Page(rows, limit, offset) ==
    SubSeq(rows, offset + 1, IF Len(rows) < offset + limit THEN Len(rows) ELSE offset + limit)

ListPages(store, user_id, status, limit, offset) ==
    {Page([k \in 1..Len(ord) |-> store[ord[k]]], limit, offset) :
        ord \in Orderings(ListRows(store, user_id, status))}

\* Due dates, as day numbers in calendar order.
Dates == {1, 2}

\* The parameters of TaskService.list.
ServiceListParams == {"user_id", "status", "limit", "offset"}

\* ListTasksArgs: status (default "all"), priority, due_before.
McpListArgs ==
    {[status |-> s, priority |-> p, due_before |-> d] :
        s \in {"all", "pending"}, p \in {None, Some("high")}, d \in {None, Some(1)}}

\* The keyword arguments list_tasks calls task_service.list with: due_before
\* is not among them.
McpListCall(user_id, args) ==
    [user_id |-> user_id, status |-> args.status, priority |-> args.priority]

\* list_tasks (MCP tool): a keyword TaskService.list has no parameter for
\* makes the call raise; otherwise the rows are those of the status filter.
McpListOutcome(store, user_id, args) ==
    LET call == McpListCall(user_id, args)
    IN IF ~(DOMAIN call \subseteq ServiceListParams)
       THEN [res |-> "error", pages |-> {}]
       ELSE [res |-> "ok",
             pages |-> ListPages(store, call.user_id, Some(call.status), DefaultLimit, 0)]

\* TaskListProps: status, dueBefore, dueAfter, None when the page leaves
\* them out.
TaskListProps ==
    {[status |-> s, dueBefore |-> b, dueAfter |-> a] :
        s \in {None, Pending}, b \in {None} \cup {Some(x) : x \in Dates},
        a \in {None} \cup {Some(x) : x \in Dates}}

\* TaskList's useQuery: the argument of api.getTasks.
GetTasksParams(props) ==
    [status |-> props.status, due_before |-> props.dueBefore, due_after |-> props.dueAfter]

\* update_task (MCP tool): UpdateTaskArgs has title, description, status,
\* due_date and priority, None when the caller leaves them out, and all five
\* are handed to TaskUpdate(**args.model_dump(exclude={'task_id'})).
McpArgs ==
    {[title |-> t, description |-> d, status |-> s, due_date |-> None, priority |-> None] :
        t \in {None, Some(<<"a">>)}, d \in {None, Some(<<"d">>)}, s \in {None, Done}}

McpUpdateOutcome(store, task_id, user_id, args, now1, now2) ==
    UpdateOutcome(store, task_id, user_id, args, now1, now2)

\* ------------------------------------------------------------------ actions
\* What a request addressed: a task of the caller, a task of another owner,
\* or no stored task.
Target(store, task_id, user_id) ==
    IF task_id \notin DOMAIN store THEN "absent"
    ELSE IF store[task_id].user_id = user_id THEN "own" ELSE "foreign"

\* The requests that can be in TaskService.update at the same time, each with
\* a session of its own.
Callers == {1, 2}
Idle == [phase |-> "idle"]

\* ------------------------------------------------ frontend: initial state
\* DashboardLayout: useState(true) for isLoading; authed is what
\* api.isAuthenticated() answered to the mount effect (None before it ran),
\* pushed the route handed to router.push.
LayoutInit == [isLoading |-> TRUE, authed |-> None, pushed |-> None]

\* A dashboard page (Today, Upcoming, All Tasks): useState(false) for
\* showTaskForm, useState<Task | undefined>() for editingTask.
PageInit(route) == [route |-> route, showTaskForm |-> FALSE, editingTask |-> None]

\* TaskForm: useState<string | null>(null) for error; pending is the API call a
\* mutation has in flight, result how the last such call ended.
FormInit == [error |-> None, pending |-> None, result |-> None]

\* TaskList before it is mounted: useState(-1) for selectedIndex, no query yet.
ListInit == [query |-> "unmounted", data |-> None, fetching |-> FALSE,
             selectedIndex |-> -1, mutated |-> None]

\* ChatPage: useState([]) / useState(false) / useState('') / useState<string>();
\* streams holds the calls of handleSendMessage that are consuming their stream
\* (each with its local `content`), sent counts the messages accepted, and
\* cleared tells that Clear was pressed and no message was sent since.
ChatInit == [messages |-> <<>>, isLoading |-> FALSE, streamingContent |-> <<>>,
             conversationId |-> None, streams |-> <<>>, sent |-> 0, cleared |-> FALSE]

\* The deployment test script before it is started.
ShInit == [pc |-> "idle", env |-> None, ERRORS |-> 0, pf |-> {}, out |-> <<>>,
           code |-> None]

Init ==
    /\ tasks = <<>>
    /\ idCount = 0
    /\ clock = 0
    /\ last = [op |-> "init", target |-> "absent", res |-> "ok"]
    /\ c_tasks = <<>>
    /\ c_next_id = 1
    /\ inflight = [c \in Callers |-> Idle]
    /\ base = <<>>
    /\ layout = LayoutInit
    /\ dashPage = PageInit("today")
    /\ taskForm = FormInit
    /\ taskList = ListInit
    /\ chat = ChatInit
    /\ sh = ShInit

\* The second reading of datetime.utcnow() in an update that sets DONE is not
\* earlier than the first.
Later(now) == {t \in now..(now + 1) : t <= MaxClock}

\* datetime.utcnow() moves on between requests.
Tick ==
    /\ clock < MaxClock
    /\ clock' = clock + 1
    /\ last' = [op |-> "tick", target |-> "absent", res |-> "ok"]
    /\ UNCHANGED <<webVars, consoleVars, concVars, frontVars>>

\* POST /api/tasks.  uuid4 gives an id no earlier create was given.
CreateTask(user_id, inp) ==
    LET out == CreateOutcome(tasks, idCount + 1, user_id, inp, clock)
    IN /\ tasks' = out.store
       /\ idCount' = IF out.res = "ok" THEN idCount + 1 ELSE idCount
       /\ last' = [op |-> "create", target |-> "absent", res |-> out.res]
       /\ UNCHANGED <<clock, consoleVars, concVars, frontVars>>

\* GET /api/tasks/:id.
ReadTask(task_id, user_id) ==
    /\ last' = [op |-> "get", target |-> Target(tasks, task_id, user_id),
                res |-> IF GetTask(tasks, task_id, user_id) = None
                        THEN "notfound" ELSE "ok"]
    /\ UNCHANGED <<tasks, idCount, clock, consoleVars, concVars, frontVars>>

\* PATCH /api/tasks/:id.
UpdateTask(task_id, user_id, upd) ==
    \E now2 \in Later(clock) :
        LET out == UpdateOutcome(tasks, task_id, user_id, upd, clock, now2)
        IN /\ now2 # clock => out.res = "ok" /\ "status" \in DOMAIN upd /\ upd.status = Done
           /\ tasks' = out.store
           /\ clock' = now2
           /\ last' = [op |-> "update", target |-> Target(tasks, task_id, user_id),
                       res |-> out.res]
           /\ UNCHANGED <<idCount, consoleVars, concVars, frontVars>>

\* The checkbox of a task shown as not done.
MarkDone(task_id, user_id) ==
    \E now2 \in Later(clock) :
        LET out == MarkDoneOutcome(tasks, task_id, user_id, clock, now2)
        IN /\ now2 # clock => out.res = "ok"
           /\ tasks' = out.store
           /\ clock' = now2
           /\ last' = [op |-> "mark_done", target |-> Target(tasks, task_id, user_id),
                       res |-> out.res]
           /\ UNCHANGED <<idCount, consoleVars, concVars, frontVars>>

\* The checkbox of a task shown as done.
MarkPending(task_id, user_id) ==
    LET out == MarkPendingOutcome(tasks, task_id, user_id, clock)
    IN /\ tasks' = out.store
       /\ last' = [op |-> "mark_pending", target |-> Target(tasks, task_id, user_id),
                   res |-> out.res]
       /\ UNCHANGED <<idCount, clock, consoleVars, concVars, frontVars>>

\* GET /api/tasks.
ListTasks(user_id, status, limit, offset) ==
    /\ last' = [op |-> "list",
                target |-> IF ListRows(tasks, user_id, status) = {} THEN "absent" ELSE "own",
                res |-> "ok"]
    /\ UNCHANGED <<tasks, idCount, clock, consoleVars, concVars, frontVars>>

\* An update whose JSON body carries keys beyond the fields of TaskUpdate.
PatchTask(task_id, user_id, body) ==
    \E now2 \in Later(clock) :
        LET out == PatchOutcome(tasks, task_id, user_id, body, clock, now2)
        IN /\ now2 # clock => out.res = "ok" /\ "status" \in DOMAIN body /\ body.status = Done
           /\ tasks' = out.store
           /\ clock' = now2
           /\ last' = [op |-> "patch", target |-> Target(tasks, task_id, user_id),
                       res |-> out.res]
           /\ UNCHANGED <<idCount, consoleVars, concVars, frontVars>>

\* DELETE /api/tasks/:id.
DeleteTask(task_id, user_id) ==
    LET out == DeleteOutcome(tasks, task_id, user_id)
    IN /\ tasks' = out.store
       /\ last' = [op |-> "delete", target |-> Target(tasks, task_id, user_id),
                   res |-> out.res]
       /\ UNCHANGED <<idCount, clock, consoleVars, concVars, frontVars>>

\* The tag sets a listing can be asked for.
TagFilters == {{"work"}, {"work", "personal"}, {"home"}}

\* The tags of a stored task, as a set.
TagSet(task) == {task.tags[k] : k \in 1..Len(task.tags)}

\* Mutant of TagRows: a task must carry every requested tag.
TagRows_MatchAll(store, user_id, R) ==
    {i \in DOMAIN store : store[i].user_id = user_id /\ R \subseteq TagSet(store[i])}

\* The tag filter of a listing: the owner's tasks whose tag set meets the
\* requested one.
TagRows(store, user_id, R) ==
    {i \in DOMAIN store : store[i].user_id = user_id /\ TagSet(store[i]) \cap R # {}}

\* GET /api/tasks?tags=...
ListByTags(user_id, R) ==
    /\ last' = [op |-> "list_tags",
                target |-> IF TagRows(tasks, user_id, R) = {} THEN "absent" ELSE "own",
                res |-> "ok"]
    /\ UNCHANGED <<tasks, idCount, clock, consoleVars, concVars, frontVars>>

\* TaskList's render: one TaskCard per task of the query result, in the
\* order of the result.
TaskListCards(page) == [k \in 1..Len(page) |-> page[k].id]

\* The chat tool list_tasks, for the current user.
McpListTasks(user_id, args) ==
    /\ last' = [op |-> "mcp_list",
                target |-> IF \E i \in DOMAIN tasks : tasks[i].user_id = user_id
                           THEN "own" ELSE "absent",
                res |-> McpListOutcome(tasks, user_id, args).res]
    /\ UNCHANGED <<tasks, idCount, clock, consoleVars, concVars, frontVars>>

\* The chat tool update_task, for the current user.
McpUpdateTask(task_id, user_id, args) ==
    \E now2 \in Later(clock) :
        LET out == McpUpdateOutcome(tasks, task_id, user_id, args, clock, now2)
        IN /\ now2 # clock => out.res = "ok" /\ args.status = Done
           /\ tasks' = out.store
           /\ clock' = now2
           /\ last' = [op |-> "mcp_update", target |-> Target(tasks, task_id, user_id),
                       res |-> out.res]
           /\ UNCHANGED <<idCount, consoleVars, concVars, frontVars>>

StatusFilters == {None} \cup {Some(st) : st \in TaskStatus}
Limits == {1, DefaultLimit}
Offsets == {0, 1}

\* Every request, on a store of at most MaxDetailed tasks.
Next ==
    \/ Tick
    \/ \E u \in Owners, inp \in CreateInputs : idCount < MaxDetailed /\ CreateTask(u, inp)
    \/ \E i \in 1..MaxDetailed, u \in Owners : ReadTask(i, u)
    \/ \E i \in 1..MaxDetailed, u \in Owners, upd \in Updates : UpdateTask(i, u, upd)
    \/ \E i \in 1..MaxDetailed, u \in Owners : MarkDone(i, u)
    \/ \E i \in 1..MaxDetailed, u \in Owners : MarkPending(i, u)
    \/ \E i \in 1..MaxDetailed, u \in Owners : DeleteTask(i, u)
    \/ \E i \in 1..MaxDetailed, u \in Owners, args \in McpArgs : McpUpdateTask(i, u, args)
    \/ \E i \in 1..MaxDetailed, u \in Owners, body \in PatchBodies : PatchTask(i, u, body)
    \/ \E u \in Owners, st \in StatusFilters, l \in Limits, o \in Offsets : ListTasks(u, st, l, o)

Spec == Init /\ [][Next]_vars

\* Several tasks of several owners, the requests restricted to the status.
StatusCreates == {[title |-> <<"a">>], [title |-> <<"a">>, status |-> "done"]}

NextOwners ==
    \/ Tick
    \/ \E u \in Owners, inp \in StatusCreates : idCount < MaxTasks /\ CreateTask(u, inp)
    \/ \E i \in TaskIds, u \in Owners : ReadTask(i, u)
    \/ \E i \in TaskIds, u \in Owners : MarkDone(i, u)
    \/ \E i \in TaskIds, u \in Owners : MarkPending(i, u)
    \/ \E i \in TaskIds, u \in Owners : DeleteTask(i, u)
    \/ \E u \in Owners, st \in StatusFilters, l \in Limits, o \in Offsets : ListTasks(u, st, l, o)

SpecOwners == Init /\ [][NextOwners]_vars

\* Tasks that differ in priority and due date, and the listings of them.
QueryCreates ==
    {[title |-> <<"a">>, priority |-> p, due_date |-> d] :
        p \in {"low", "high"}, d \in {None} \cup {Some(x) : x \in Dates}}
        \cup {[title |-> <<"a">>, tags |-> t] : t \in {<<"work", "urgent">>, <<"personal">>}}

NextQuery ==
    \/ Tick
    \/ \E u \in Owners, inp \in QueryCreates : idCount < MaxTasks /\ CreateTask(u, inp)
    \/ \E i \in TaskIds, u \in Owners : DeleteTask(i, u)
    \/ \E u \in Owners, st \in StatusFilters : ListTasks(u, st, DefaultLimit, 0)
    \/ \E u \in Owners, args \in McpListArgs : McpListTasks(u, args)
    \/ \E u \in Owners, R \in TagFilters : ListByTags(u, R)

SpecQuery == Init /\ [][NextQuery]_vars

\* ------------------------------------------------------ concurrent updates
\* TaskService.update is a coroutine: other requests run while it awaits the
\* select of self.get and while it awaits session.commit.
ConcCreates == {[title |-> <<"a">>], [title |-> <<"a">>, status |-> "done"]}
ConcUpdates ==
    {[title |-> Some(<<"b">>), description |-> Some(<<"d">>)],
     [title |-> Some(<<"a">>), description |-> Some(<<"e">>)],
     [status |-> Done],
     [status |-> Pending]}

\* No update has begun: the table is still being filled.
Quiet == \A c \in Callers : inflight[c] = Idle

\* task = await self.get(task_id, user_id); a caller whose task is not there
\* is answered at once.
BeginUpdate(c, task_id, user_id, upd) ==
    /\ inflight[c] = Idle
    /\ ValidUpdate(upd)
    /\ LET found == GetTask(tasks, task_id, user_id)
       IN IF found = None
          THEN /\ last' = [op |-> "update", target |-> Target(tasks, task_id, user_id),
                           res |-> "notfound"]
               /\ UNCHANGED <<concVars, frontVars>>
          ELSE /\ inflight' = [inflight EXCEPT ![c] =
                                 [phase |-> "loaded", id |-> task_id, user |-> user_id,
                                  upd |-> upd, task |-> found[1], loaded |-> found[1]]]
               /\ base' = IF Quiet THEN tasks ELSE base
               /\ last' = [op |-> "begin_update", target |-> "own", res |-> "ok"]
    /\ UNCHANGED <<tasks, idCount, clock, consoleVars, frontVars>>

\* The setattr loop and the two timestamps, on the caller's own object.
ModifyLoaded(c) ==
    /\ inflight[c].phase = "loaded"
    /\ \E now2 \in Later(clock) :
        /\ now2 # clock => "status" \in DOMAIN inflight[c].upd /\ inflight[c].upd.status = Done
        /\ inflight' = [inflight EXCEPT ![c].phase = "modified",
                           ![c].task = Modify(inflight[c].loaded, inflight[c].upd, clock, now2)]
        /\ clock' = now2
    /\ last' = [op |-> "modify", target |-> "own", res |-> "ok"]
    /\ UNCHANGED <<tasks, idCount, base, consoleVars, frontVars>>

\* await self.session.commit()
CommitUpdate(c) ==
    /\ inflight[c].phase = "modified"
    /\ LET out == Commit(tasks, inflight[c].loaded, inflight[c].task)
       IN /\ tasks' = out.store
          /\ last' = [op |-> "update", target |-> "own", res |-> out.res]
    /\ inflight' = [inflight EXCEPT ![c].phase = "done"]
    /\ UNCHANGED <<idCount, clock, base, consoleVars, frontVars>>

NextConc ==
    \/ Tick
    \/ \E u \in Owners, inp \in ConcCreates :
        Quiet /\ idCount < MaxDetailed /\ CreateTask(u, inp)
    \/ \E c \in Callers, i \in 1..MaxDetailed, u \in Owners, upd \in ConcUpdates :
        BeginUpdate(c, i, u, upd)
    \/ \E c \in Callers : ModifyLoaded(c)
    \/ \E c \in Callers : CommitUpdate(c)

SpecConc == Init /\ [][NextConc]_vars

\* ----------------------------------------------------------------- console
\* Task (dataclass) as TaskStorage.create builds it.
ConsoleTask(id, title, description, now) ==
    [id |-> id, title |-> title, description |-> description, status |-> "pending",
     created_at |-> now, completed_at |-> None]

\* Task.mark_done
mark_done(task, now) == [task EXCEPT !.status = "done", !.completed_at = Some(now)]

\* Mutant of mark_pending: completed_at is left as it is.
mark_pending_KeepCompleted(task) == [task EXCEPT !.status = "pending"]

\* Task.mark_pending
mark_pending(task) == [task EXCEPT !.status = "pending", !.completed_at = None]

\* TaskStorage.get: the position of the first task with that id, 0 for None.
StorageGet(store, task_id) ==
    IF \E k \in 1..Len(store) : store[k].id = task_id
    THEN CHOOSE k \in 1..Len(store) :
            /\ store[k].id = task_id
            /\ \A j \in 1..(k - 1) : store[j].id # task_id
    ELSE 0

\* TaskStorage.create
StorageCreate(store, next_id, title, description, now) ==
    Append(store, ConsoleTask(next_id, title, description, now))

\* TaskStorage.list
StorageList(store, status) ==
    IF status = None THEN store ELSE SelectSeq(store, LAMBDA t : t.status = status[1])

\* TaskStorage.update: setattr of every keyword the task has an attribute for.
StorageUpdate(store, task_id, kwargs) ==
    LET k == StorageGet(store, task_id)
    IN IF k = 0
       THEN [res |-> "notfound", store |-> store]
       ELSE [res |-> "ok",
             store |-> [store EXCEPT ![k] =
                          [f \in DOMAIN @ |-> IF f \in DOMAIN kwargs THEN kwargs[f] ELSE @[f]]]]

\* TaskStorage.delete
StorageDelete(store, task_id) ==
    LET k == StorageGet(store, task_id)
    IN IF k = 0
       THEN [res |-> "notfound", store |-> store]
       ELSE [res |-> "ok",
             store |-> SubSeq(store, 1, k - 1) \o SubSeq(store, k + 1, Len(store))]

\* CommandHandler.done
DoneOutcome(store, task_id, now) ==
    LET k == StorageGet(store, task_id)
    IN IF k = 0
       THEN [res |-> "notfound", store |-> store]
       ELSE [res |-> "ok", store |-> [store EXCEPT ![k] = mark_done(@, now)]]

\* CommandHandler.undo
UndoOutcome(store, task_id) ==
    LET k == StorageGet(store, task_id)
    IN IF k = 0
       THEN [res |-> "notfound", store |-> store]
       ELSE [res |-> "ok", store |-> [store EXCEPT ![k] = mark_pending(@)]]

\* CommandHandler.edit: a title or description that is None or empty is left
\* out of the update.
EditOutcome(store, task_id, title, desc) ==
    LET withTitle == IF title # None /\ title[1] # <<>> THEN [title |-> title[1]] ELSE <<>>
        updates == IF desc # None /\ desc[1] # <<>>
                   THEN [f \in DOMAIN withTitle \cup {"description"} |->
                            IF f = "description" THEN desc ELSE withTitle[f]]
                   ELSE withTitle
    IN StorageUpdate(store, task_id, updates)

\* What a console command addressed: a pending task, a done task, or none.
ConsoleTarget(store, task_id) ==
    IF StorageGet(store, task_id) = 0 THEN "absent"
    ELSE store[StorageGet(store, task_id)].status

ConsoleTitles == {<<>>, <<"a">>}
EditTitles == {None, Some(<<>>), Some(<<"b">>)}
EditDescriptions == {None, Some(<<"d">>)}

\* Mutant of Add: the id is taken from the number of stored tasks.
Add_CountId(title, desc) ==
    /\ c_tasks' = StorageCreate(c_tasks, Len(c_tasks) + 1, title, desc, clock)
    /\ c_next_id' = c_next_id + 1
    /\ last' = [op |-> "add", target |-> "absent", res |-> "ok"]
    /\ UNCHANGED <<clock, webVars, concVars, frontVars>>

\* add <title>
Add(title, desc) ==
    /\ c_tasks' = StorageCreate(c_tasks, c_next_id, title, desc, clock)
    /\ c_next_id' = c_next_id + 1
    /\ last' = [op |-> "add", target |-> "absent", res |-> "ok"]
    /\ UNCHANGED <<clock, webVars, concVars, frontVars>>

\* list [--status s]
ListCmd(status) ==
    /\ last' = [op |-> "list", target |-> "absent",
                res |-> IF StorageList(c_tasks, status) = <<>> THEN "notfound" ELSE "ok"]
    /\ UNCHANGED <<clock, webVars, consoleVars, concVars, frontVars>>

\* done <id>
DoneCmd(task_id) ==
    LET out == DoneOutcome(c_tasks, task_id, clock)
    IN /\ c_tasks' = out.store
       /\ last' = [op |-> "done", target |-> ConsoleTarget(c_tasks, task_id), res |-> out.res]
       /\ UNCHANGED <<c_next_id, clock, webVars, concVars, frontVars>>

\* undo <id>
UndoCmd(task_id) ==
    LET out == UndoOutcome(c_tasks, task_id)
    IN /\ c_tasks' = out.store
       /\ last' = [op |-> "undo", target |-> ConsoleTarget(c_tasks, task_id), res |-> out.res]
       /\ UNCHANGED <<c_next_id, clock, webVars, concVars, frontVars>>

\* delete <id>
DeleteCmd(task_id) ==
    LET out == StorageDelete(c_tasks, task_id)
    IN /\ c_tasks' = out.store
       /\ last' = [op |-> "delete", target |-> ConsoleTarget(c_tasks, task_id), res |-> out.res]
       /\ UNCHANGED <<c_next_id, clock, webVars, concVars, frontVars>>

\* edit <id> [--title t] [--desc d]
EditCmd(task_id, title, desc) ==
    LET out == EditOutcome(c_tasks, task_id, title, desc)
    IN /\ c_tasks' = out.store
       /\ last' = [op |-> "edit", target |-> ConsoleTarget(c_tasks, task_id), res |-> out.res]
       /\ UNCHANGED <<c_next_id, clock, webVars, concVars, frontVars>>

NextConsole ==
    \/ Tick
    \/ \E t \in ConsoleTitles : c_next_id <= MaxTasks /\ Add(t, None)
    \/ \E st \in {None, Some("pending"), Some("done")} : ListCmd(st)
    \/ \E i \in TaskIds : DoneCmd(i)
    \/ \E i \in TaskIds : UndoCmd(i)
    \/ \E i \in TaskIds : DeleteCmd(i)
    \/ \E i \in TaskIds, t \in EditTitles, d \in EditDescriptions : EditCmd(i, t, d)

SpecConsole == Init /\ [][NextConsole]_vars

\* ------------------------------------------------------------------ claims
\* str.strip() on a title, blanks being the only whitespace of Titles.
RECURSIVE StripLeft(_)
StripLeft(t) == IF t # <<>> /\ Head(t) = " " THEN StripLeft(Tail(t)) ELSE t

RECURSIVE StripRight(_)
StripRight(t) ==
    IF t # <<>> /\ t[Len(t)] = " " THEN StripRight(SubSeq(t, 1, Len(t) - 1)) ELSE t

IsBlank(t) == StripRight(StripLeft(t)) = <<>>

\* An id no stored task has.
NoSuchId == MaxTasks + 1

RequestIds == 1..NoSuchId

\* C1: for every stored task, status is done if and only if completed_at is
\* not null, after any sequence of create, update, mark-done and mark-pending.
C1_DoneIffCompleted ==
    \A i \in DOMAIN tasks : (tasks[i].status = Done) <=> (tasks[i].completed_at # None)

\* C2: a get, update or delete of a task by another owner has the outcome of
\* the same request for an id that is not stored: not found, store unchanged.
C2_ForeignIsAbsent ==
    \A i \in DOMAIN tasks : \A u \in Owners \ {tasks[i].user_id} :
        /\ GetTask(tasks, i, u) = GetTask(tasks, NoSuchId, u)
        /\ GetTask(tasks, i, u) = None
        /\ DeleteOutcome(tasks, i, u) = DeleteOutcome(tasks, NoSuchId, u)
        /\ DeleteOutcome(tasks, i, u) = [res |-> "notfound", store |-> tasks]
        /\ \A upd \in Updates \cup {[status |-> Done], [status |-> Pending]} :
            /\ UpdateOutcome(tasks, i, u, upd, clock, clock)
                   = UpdateOutcome(tasks, NoSuchId, u, upd, clock, clock)
            /\ UpdateOutcome(tasks, i, u, upd, clock, clock).store = tasks
            /\ ValidUpdate(upd)
                   => UpdateOutcome(tasks, i, u, upd, clock, clock).res = "notfound"

\* C2 witness: an update addressed another owner's task and was answered
\* not found.
C2_Witness ==
    /\ last.op = "update" /\ last.target = "foreign" /\ last.res = "notfound"
    /\ tasks # <<>>

\* C3: whatever the filter and the page, a listing for an owner holds only
\* tasks of that owner.
C3_ListOnlyOwn ==
    \A u \in Owners, st \in StatusFilters, l \in Limits, o \in Offsets :
        \A page \in ListPages(tasks, u, st, l, o) :
            \A k \in 1..Len(page) : page[k].user_id = u

\* C3 witness: a listing was served from a store that holds tasks of two
\* owners.
C3_Witness ==
    /\ last.op = "list" /\ last.target = "own"
    /\ \E i, j \in DOMAIN tasks : tasks[i].user_id # tasks[j].user_id

\* C4: an update that sets status to done sets completed_at; one that sets
\* another status on a done task clears completed_at.
C4_UpdateCouplesCompletedAt ==
    \A i \in DOMAIN tasks : \A upd \in Updates \cup {[status |-> Done], [status |-> Pending]} :
        LET out == UpdateOutcome(tasks, i, tasks[i].user_id, upd, clock, clock)
        IN "status" \in DOMAIN upd /\ out.res = "ok" =>
            /\ upd.status = Done => out.store[i].completed_at # None
            /\ upd.status # Done /\ tasks[i].status = Done
                   => out.store[i].completed_at = None

\* C5: creating a task whose title is empty or only whitespace fails with a
\* validation error and stores nothing.
C5_BlankTitleRejected ==
    \A u \in Owners, inp \in CreateInputs :
        IsBlank(inp.title) =>
            CreateOutcome(tasks, idCount + 1, u, inp, clock)
                = [res |-> "invalid", store |-> tasks]

\* C6: an update that fails (not found, or a validation error on any field)
\* leaves the store as it was, updated_at included.
C6_FailedUpdateChangesNothing ==
    \A i \in RequestIds, u \in Owners :
        \A upd \in Updates \cup {[status |-> Done], [status |-> Pending]} :
            \A now2 \in Later(clock) :
                LET out == UpdateOutcome(tasks, i, u, upd, clock, now2)
                IN out.res \in {"notfound", "invalid"} => out.store = tasks

\* C6 witness: an update of the caller's own task was refused as invalid after
\* the clock had moved on from the task's last write.
C6_Witness ==
    /\ last.op = "update" /\ last.target = "own" /\ last.res = "invalid"
    /\ \E i \in DOMAIN tasks : tasks[i].updated_at < clock

\* The fields a PATCH body or the chat tool's arguments supply.
Supplied(upd) == {f \in DOMAIN upd : upd[f] # None}

\* C7: a successful update changes only the fields the caller supplied (and
\* updated_at, completed_at), through PATCH, the checkbox and the chat tool.
C7_UnsuppliedFieldsKept ==
    \A i \in DOMAIN tasks :
        /\ \A upd \in Updates \cup {[status |-> Done], [status |-> Pending]} :
            LET out == UpdateOutcome(tasks, i, tasks[i].user_id, upd, clock, clock)
            IN out.res = "ok" =>
                \A f \in (DOMAIN tasks[i]) \ (Supplied(upd) \cup {"updated_at", "completed_at"}) :
                    out.store[i][f] = tasks[i][f]
        /\ \A args \in McpArgs :
            LET out == McpUpdateOutcome(tasks, i, tasks[i].user_id, args, clock, clock)
            IN out.res = "ok" =>
                \A f \in (DOMAIN tasks[i]) \ (Supplied(args) \cup {"updated_at", "completed_at"}) :
                    out.store[i][f] = tasks[i][f]

\* C9 as stated: marking a task done that is already done and has its
\* completion time leaves completed_at as it was.
C9_CompletedAtKept ==
    \A i \in DOMAIN tasks : \A now2 \in Later(clock) :
        tasks[i].status = Done /\ tasks[i].completed_at # None =>
            MarkDoneOutcome(tasks, i, tasks[i].user_id, clock, now2).store[i].completed_at
                = tasks[i].completed_at

\* C9 amended: marking a done task done again keeps status done and sets
\* completed_at to the time of this call, never earlier than the time it
\* held; besides completed_at only updated_at changes.
C9_CompletedAtRestamped ==
    \A i \in DOMAIN tasks : \A now2 \in Later(clock) :
        tasks[i].status = Done /\ tasks[i].completed_at # None =>
            LET out == MarkDoneOutcome(tasks, i, tasks[i].user_id, clock, now2)
            IN /\ out.res = "ok"
               /\ out.store[i].status = Done
               /\ out.store[i].completed_at = Some(now2)
               /\ tasks[i].completed_at[1] <= now2
               /\ out.store[i].updated_at = clock
               /\ \A f \in (DOMAIN tasks[i]) \ {"updated_at", "completed_at"} :
                    out.store[i][f] = tasks[i][f]

\* C9 witness: a task was marked done a second time, at a later time than the
\* first.
C9_Witness ==
    /\ last.op = "mark_done" /\ last.res = "ok"
    /\ \E i \in DOMAIN tasks :
        /\ tasks[i].status = Done
        /\ tasks[i].completed_at # None
        /\ tasks[i].created_at < tasks[i].completed_at[1]
        /\ tasks[i].updated_at > tasks[i].created_at

SameButTimes(r1, r2) ==
    /\ \A f \in (DOMAIN r1) \ {"updated_at", "completed_at"} : r1[f] = r2[f]
    /\ (r1.completed_at = None) <=> (r2.completed_at = None)

\* The row of task_id after caller x's update and then caller y's, each run
\* without interruption on the table as it was before either began.
SerialRow(x, y) ==
    LET first == UpdateOutcome(base, inflight[x].id, inflight[x].user,
                               inflight[x].upd, clock, clock).store
    IN UpdateOutcome(first, inflight[y].id, inflight[y].user,
                     inflight[y].upd, clock, clock).store[inflight[y].id]

\* C8: two updates of one task by concurrent callers leave the row as it
\* would be had one update run after the other, in one of the two orders.
C8_UpdatesSerializable ==
    (/\ \A c \in Callers : inflight[c].phase = "done"
     /\ inflight[1].id = inflight[2].id)
        => \/ SameButTimes(tasks[inflight[1].id], SerialRow(1, 2))
           \/ SameButTimes(tasks[inflight[1].id], SerialRow(2, 1))

\* The bodies of the status-only requests.
StatusUpdates == {[status |-> Pending], [status |-> InProgress], [status |-> Done]}

\* C11: delete answers true exactly when the task is stored and the caller's,
\* and then removes that task and no other; afterwards get, update and delete
\* of the id answer not found for every owner; an id that was handed out is
\* not handed out again, so a deleted id stays not found.
C11_DeleteRemovesForGood ==
    /\ \A i \in DOMAIN tasks : i <= idCount
    /\ \A i \in RequestIds, u \in Owners :
        LET out == DeleteOutcome(tasks, i, u)
        IN /\ (out.res = "ok") <=> (i \in DOMAIN tasks /\ tasks[i].user_id = u)
           /\ out.res # "ok" => out.res = "notfound" /\ out.store = tasks
           /\ out.res = "ok" =>
                /\ DOMAIN out.store = DOMAIN tasks \ {i}
                /\ \A j \in DOMAIN out.store : out.store[j] = tasks[j]
                /\ \A v \in Owners :
                    /\ GetTask(out.store, i, v) = None
                    /\ DeleteOutcome(out.store, i, v) = [res |-> "notfound", store |-> out.store]
                    /\ \A upd \in StatusUpdates :
                        UpdateOutcome(out.store, i, v, upd, clock, clock)
                            = [res |-> "notfound", store |-> out.store]

\* C11 witness: a delete succeeded and removed one of two tasks; its id is
\* below the counter and no longer stored.
C11_Witness ==
    /\ last.op = "delete" /\ last.res = "ok"
    /\ tasks # <<>>
    /\ \E i \in 1..idCount : i \notin DOMAIN tasks

C13_IdsNeverReused ==
    [][/\ c_next_id' >= c_next_id
       /\ \A k \in DOMAIN c_tasks : c_tasks[k].id < c_next_id
       /\ \A k \in DOMAIN c_tasks' : c_tasks'[k].id < c_next_id'
       /\ \A k, l \in DOMAIN c_tasks' : k # l => c_tasks'[k].id # c_tasks'[l].id
       /\ Len(c_tasks') > Len(c_tasks) =>
            /\ c_tasks'[Len(c_tasks')].id = c_next_id
            /\ c_next_id' = c_next_id + 1]_vars

\* C13 witness: a task was created after an earlier one had been deleted.
C13_Witness ==
    /\ last.op = "add"
    /\ c_tasks # <<>>
    /\ \E i \in 1..(c_next_id - 1) :
        /\ \A k \in DOMAIN c_tasks : c_tasks[k].id # i
        /\ \E k \in DOMAIN c_tasks : c_tasks[k].id > i

\* C14: with a clock that does not go back, every stored task has
\* updated_at >= created_at, and every update that succeeds leaves the task
\* with updated_at at the time of the update.
C14_UpdatedNotBeforeCreated ==
    \A i \in DOMAIN tasks :
        /\ tasks[i].updated_at >= tasks[i].created_at
        /\ tasks[i].updated_at <= clock
        /\ \A upd \in Updates \cup StatusUpdates \cup McpArgs, now2 \in Later(clock) :
            LET out == UpdateOutcome(tasks, i, tasks[i].user_id, upd, clock, now2)
            IN out.res = "ok" =>
                /\ out.store[i].updated_at = clock
                /\ out.store[i].updated_at >= out.store[i].created_at

\* C14 witness: a task was updated after the time of its creation.
C14_Witness ==
    /\ last.op \in {"update", "mark_done", "mark_pending", "patch", "mcp_update"}
    /\ last.res = "ok"
    /\ \E i \in DOMAIN tasks : tasks[i].updated_at > tasks[i].created_at

\* The owner's stored tasks that have the requested status, or all of the
\* owner's when no status is requested.
Matching(u, st) ==
    {i \in DOMAIN tasks : tasks[i].user_id = u /\ (st # None => tasks[i].status = st)}

PageIds(page) == {page[k].id : k \in 1..Len(page)}

\* C15 as stated: a listing holds exactly the owner's tasks of the requested
\* status, all of them and no others.
C15_ListIsAllMatching ==
    \A u \in Owners, st \in StatusFilters, l \in Limits, o \in Offsets :
        \A page \in ListPages(tasks, u, st, l, o) : PageIds(page) = Matching(u, st)

\* C15 amended: a listing is one page of the owner's tasks of the requested
\* status: no other task, no task twice, limit tasks at most after the first
\* offset are skipped; it holds all of them when offset is 0 and they are no
\* more than limit.  Without a status filter no task is left out for its
\* status.
C15_ListIsPageOfMatching ==
    \A u \in Owners, st \in StatusFilters, l \in Limits, o \in Offsets :
        LET all == Matching(u, st)
            rest == IF Cardinality(all) > o THEN Cardinality(all) - o ELSE 0
        IN /\ st = None => all = {i \in DOMAIN tasks : tasks[i].user_id = u}
           /\ \A page \in ListPages(tasks, u, st, l, o) :
                /\ PageIds(page) \subseteq all
                /\ Cardinality(PageIds(page)) = Len(page)
                /\ Len(page) = IF rest < l THEN rest ELSE l
                /\ (o = 0 /\ Cardinality(all) <= l) => PageIds(page) = all

\* C15 witness: a listing was served to an owner who has two tasks of one
\* status, more than the smaller limit.
C15_Witness ==
    /\ last.op = "list" /\ last.target = "own"
    /\ \E u \in Owners, st \in StatusFilters :
        st # None /\ Cardinality(Matching(u, st)) > 1

\* The owner's tasks whose due date is set and within the bounds given.
InDueWindow(u, due_after, due_before) ==
    {i \in DOMAIN tasks :
        /\ tasks[i].user_id = u
        /\ (due_after # None \/ due_before # None) => tasks[i].due_date # None
        /\ due_after # None => tasks[i].due_date[1] >= due_after[1]
        /\ due_before # None => tasks[i].due_date[1] <= due_before[1]}

\* C16: a listing given a due_before bound answers with exactly the owner's
\* tasks that have a due date within the bound (of the status and priority
\* asked for), and TaskList hands its bounds to the listing call unchanged.
C16_DueWindowFilters ==
    /\ \A props \in TaskListProps :
        /\ GetTasksParams(props).due_before = props.dueBefore
        /\ GetTasksParams(props).due_after = props.dueAfter
    /\ \A u \in Owners, args \in McpListArgs :
        args.due_before # None =>
            LET out == McpListOutcome(tasks, u, args)
                expected == {i \in InDueWindow(u, None, args.due_before) :
                                /\ args.status # "all" => tasks[i].status = Some(args.status)
                                /\ args.priority # None => tasks[i].priority = args.priority}
            IN /\ expected # {} => out.res = "ok"
               /\ \A page \in out.pages : PageIds(page) = expected

PriorityRank(p) == CASE p = Some("high") -> 3 [] p = Some("medium") -> 2 [] OTHER -> 1

\* t1 may stand before t2 in a listing sorted by priority descending, then
\* due date ascending with no due date last, then creation time ascending.
InListOrder(t1, t2) ==
    \/ PriorityRank(t1.priority) > PriorityRank(t2.priority)
    \/ /\ PriorityRank(t1.priority) = PriorityRank(t2.priority)
       /\ \/ t1.due_date # None /\ t2.due_date = None
          \/ t1.due_date # None /\ t2.due_date # None /\ t1.due_date[1] < t2.due_date[1]
          \/ /\ t1.due_date = t2.due_date
             /\ t1.created_at <= t2.created_at

\* C18: a listing comes sorted by priority descending, then due date
\* ascending with no due date last, then creation time ascending, and
\* TaskList shows it in that order.
C18_ListSorted ==
    \A u \in Owners, st \in StatusFilters :
        \A page \in ListPages(tasks, u, st, DefaultLimit, 0) :
            /\ \A k \in 1..(Len(page) - 1) : InListOrder(page[k], page[k + 1])
            /\ TaskListCards(page) = [k \in 1..Len(page) |-> page[k].id]

\* ------------------------------------------------------------- task form
\* The longest text typed into the tags field.
MaxTagText == 3

TagChars == {"w", "x", ",", " "}

\* Every text of the tags field up to MaxTagText characters.
TagTexts == UNION {[1..n -> TagChars] : n \in 0..MaxTagText}

\* The texts the form is submitted with.
SubmittedTagTexts == {<<>>, <<"w">>, <<"w", ",", "w">>, <<" ", "w", ",">>, <<"x", ",", "w">>}

\* String.prototype.split(','): the pieces between the commas.
RECURSIVE Split(_)
Split(s) ==
    IF \A k \in 1..Len(s) : s[k] # ","
    THEN <<s>>
    ELSE LET c == CHOOSE k \in 1..Len(s) : s[k] = "," /\ \A j \in 1..(k - 1) : s[j] # ","
         IN <<SubSeq(s, 1, c - 1)>> \o Split(SubSeq(s, c + 1, Len(s)))

\* String.prototype.trim()
Trim(t) == StripRight(StripLeft(t))

\* Mutant of FormTags: the pieces are not trimmed.
FormTags_NoTrim(text) ==
    IF text = <<>> THEN <<>> ELSE SelectSeq(Split(text), LAMBDA t : t # <<>>)

\* data.tags ? data.tags.split(',').map((t) => t.trim()).filter(Boolean) : []
FormTags(text) ==
    IF text = <<>>
    THEN <<>>
    ELSE LET pieces == Split(text)
         IN SelectSeq([k \in 1..Len(pieces) |-> Trim(pieces[k])], LAMBDA t : t # <<>>)

\* The values of the form: title, priority and the text of the tags field
\* (description and due date left empty).
FormData ==
    {[title |-> t, priority |-> "medium", tags |-> x] :
        t \in {<<>>, <<"a">>}, x \in SubmittedTagTexts}

\* taskSchema: the form is not submitted with a title outside 1..200.
FormValid(data) == Len(data.title) >= TitleMinLength /\ Len(data.title) <= TitleMaxLength

\* createMutation: the body of api.createTask.
FormCreateBody(data) ==
    [title |-> data.title, priority |-> data.priority, tags |-> FormTags(data.tags)]

\* updateMutation: the body of api.updateTask.
FormUpdateBody(data) ==
    [title |-> Some(data.title), priority |-> Some(data.priority), tags |-> FormTags(data.tags)]

\* TaskForm submitted for a new task.
FormCreate(user_id, data) ==
    /\ FormValid(data)
    /\ LET out == CreateOutcome(tasks, idCount + 1, user_id, FormCreateBody(data), clock)
       IN /\ tasks' = out.store
          /\ idCount' = IF out.res = "ok" THEN idCount + 1 ELSE idCount
          /\ last' = [op |-> "form_create", target |-> "absent", res |-> out.res]
    /\ UNCHANGED <<clock, consoleVars, concVars, frontVars>>

\* TaskForm submitted for the task being edited.
FormUpdate(task_id, user_id, data) ==
    /\ FormValid(data)
    /\ LET out == UpdateOutcome(tasks, task_id, user_id, FormUpdateBody(data), clock, clock)
       IN /\ tasks' = out.store
          /\ last' = [op |-> "form_update", target |-> Target(tasks, task_id, user_id),
                      res |-> out.res]
    /\ UNCHANGED <<idCount, clock, consoleVars, concVars, frontVars>>

NextForm ==
    \/ Tick
    \/ \E u \in Owners, data \in FormData : idCount < MaxTasks /\ FormCreate(u, data)
    \/ \E i \in TaskIds, u \in Owners, data \in FormData : FormUpdate(i, u, data)
    \/ \E i \in TaskIds, u \in Owners : DeleteTask(i, u)

SpecForm == Init /\ [][NextForm]_vars

\* A tag is trimmed: it neither starts nor ends with a blank.
IsTrimmed(t) == t = <<>> \/ (t[1] # " " /\ t[Len(t)] # " ")

C20_NoTerminalStatus ==
    \A i \in DOMAIN tasks :
        tasks[i].status # None =>
            /\ \A s \in TaskStatus \ {tasks[i].status[1]} :
                LET out == UpdateOutcome(tasks, i, tasks[i].user_id,
                                         [status |-> Some(s)], clock, clock)
                IN out.res = "ok" /\ out.store[i].status = Some(s)
            /\ tasks[i].status # Done =>
                LET out == MarkDoneOutcome(tasks, i, tasks[i].user_id, clock, clock)
                IN out.res = "ok" /\ out.store[i].status = Done
            /\ tasks[i].status # Pending =>
                LET out == MarkPendingOutcome(tasks, i, tasks[i].user_id, clock)
                IN out.res = "ok" /\ out.store[i].status = Pending

\* C20 witness: an update has moved a task that was done, and still has its
\* completion time, to in_progress.
C20_Witness ==
    /\ last.op = "update" /\ last.res = "ok"
    /\ \E i \in DOMAIN tasks :
        tasks[i].status = InProgress /\ tasks[i].completed_at # None

\* ------------------------------------------------ frontend: the dashboard
\* What api.getTasks can resolve with: the cards' id and status, no id twice.
FetchedLists ==
    {l \in UNION {[1..n -> [id : TaskIds, status : {"pending", "done"}]] :
                      n \in 0..MaxTasks} :
        \A i, j \in DOMAIN l : l[i].id = l[j].id => i = j}

\* Mutant of AuthEffect: the placeholder is taken down whatever the check says.
AuthEffect_AlwaysShow(l, authed) ==
    [l EXCEPT !.authed = Some(authed), !.isLoading = FALSE,
              !.pushed = IF authed THEN None ELSE Some("/login")]

\* DashboardLayout's mount effect:
\* if (!api.isAuthenticated()) router.push('/login'); else setIsLoading(false)
AuthEffect(l, authed) ==
    IF ~authed
    THEN [l EXCEPT !.authed = Some(authed), !.pushed = Some("/login")]
    ELSE [l EXCEPT !.authed = Some(authed), !.isLoading = FALSE]

\* DashboardLayout's render: the placeholder while isLoading, else the sidebar
\* and the children.
ChildrenRendered(l) == ~l.isLoading

\* The layout is mounted and its effect runs; the children it renders mount in
\* turn, and the TaskList of the page starts its query.
LayoutMount(authed) ==
    /\ layout.authed = None
    /\ layout' = AuthEffect(layout, authed)
    /\ taskList' = IF ChildrenRendered(layout')
                   THEN [ListInit EXCEPT !.query = "loading"]
                   ELSE taskList
    /\ UNCHANGED <<backVars, dashPage, taskForm, chat, sh>>

\* const { data: tasks, isLoading } = useQuery(...): the query resolves
QueryResolve(ts) ==
    /\ taskList.query = "loading"
    /\ taskList' = [taskList EXCEPT !.query = "success", !.data = Some(ts),
                                    !.fetching = FALSE]
    /\ UNCHANGED <<backVars, layout, dashPage, taskForm, chat, sh>>

\* ... or fails, and data stays undefined
QueryFail ==
    /\ taskList.query = "loading"
    /\ taskList' = [taskList EXCEPT !.query = "error", !.fetching = FALSE]
    /\ UNCHANGED <<backVars, layout, dashPage, taskForm, chat, sh>>

\* ... or is fetched again (after an invalidation, or when the window regains
\* focus) and resolves with what the server holds by then.
Refetch(ts) ==
    /\ taskList.query = "success"
    /\ taskList' = [taskList EXCEPT !.data = Some(ts), !.fetching = FALSE]
    /\ UNCHANGED <<backVars, layout, dashPage, taskForm, chat, sh>>

\* Mutant of TaskListView: the empty state is shown while the query is loading.
TaskListView_NoSkeleton(l) ==
    IF l.data = None \/ (l.data # None /\ Len(l.data[1]) = 0)
    THEN [kind |-> "empty", cards |-> <<>>]
    ELSE [kind |-> "cards", cards |-> [i \in DOMAIN l.data[1] |-> l.data[1][i].id]]

\* TaskList's render: if (isLoading) skeleton; if (!tasks || tasks.length === 0)
\* 'No tasks found'; else tasks.map(task => <TaskCard key={task.id} .../>)
TaskListView(l) ==
    IF l.query = "loading"
    THEN [kind |-> "skeleton", cards |-> <<>>]
    ELSE IF l.data = None \/ (l.data # None /\ Len(l.data[1]) = 0)
         THEN [kind |-> "empty", cards |-> <<>>]
         ELSE [kind |-> "cards", cards |-> [i \in DOMAIN l.data[1] |-> l.data[1][i].id]]

\* handleNavNext: Math.min(prev + 1, tasks.length - 1), only if (tasks)
handleNavNext(l) ==
    IF l.data # None
    THEN [l EXCEPT !.selectedIndex =
             IF @ + 1 <= Len(l.data[1]) - 1 THEN @ + 1 ELSE Len(l.data[1]) - 1]
    ELSE l

\* handleNavPrev: Math.max(prev - 1, 0), whatever tasks is
handleNavPrev(l) == [l EXCEPT !.selectedIndex = IF @ - 1 >= 0 THEN @ - 1 ELSE 0]

\* handleToggle; tasks[selectedIndex] is the (selectedIndex + 1)-th card.
handleToggle(l) ==
    IF l.data # None /\ l.selectedIndex >= 0 /\ l.selectedIndex < Len(l.data[1])
    THEN LET task == l.data[1][l.selectedIndex + 1]
         IN [l EXCEPT !.mutated =
                 Some([op |-> IF task.status = "done" THEN "markTaskPending"
                                                      ELSE "markTaskDone",
                       id |-> task.id])]
    ELSE l

\* The window events the layout's key handler dispatches ('j', 'k', 'Enter');
\* the listeners are those of the latest render.
NavNext ==
    /\ taskList.query # "unmounted"
    /\ taskList' = handleNavNext(taskList)
    /\ UNCHANGED <<backVars, layout, dashPage, taskForm, chat, sh>>

NavPrev ==
    /\ taskList.query # "unmounted"
    /\ taskList' = handleNavPrev(taskList)
    /\ UNCHANGED <<backVars, layout, dashPage, taskForm, chat, sh>>

ToggleTask ==
    /\ taskList.query # "unmounted"
    /\ taskList' = handleToggle(taskList)
    /\ UNCHANGED <<backVars, layout, dashPage, taskForm, chat, sh>>

\* onSelect={() => setSelectedIndex(index)} of a card that is on screen
CardSelect(index) ==
    /\ TaskListView(taskList).kind = "cards"
    /\ index < Len(taskList.data[1])
    /\ taskList' = [taskList EXCEPT !.selectedIndex = index]
    /\ UNCHANGED <<backVars, layout, dashPage, taskForm, chat, sh>>

\* markDoneMutation / markPendingMutation onSuccess: invalidateQueries(['tasks'])
ToggleSucceeded ==
    /\ taskList.mutated # None
    /\ taskList' = [taskList EXCEPT !.mutated = None,
                       !.fetching = (taskList.query # "unmounted")]
    /\ UNCHANGED <<backVars, layout, dashPage, taskForm, chat, sh>>

NextList ==
    \/ \E authed \in BOOLEAN : LayoutMount(authed)
    \/ \E ts \in FetchedLists : QueryResolve(ts)
    \/ QueryFail
    \/ \E ts \in FetchedLists : Refetch(ts)
    \/ NavNext
    \/ NavPrev
    \/ ToggleTask
    \/ \E index \in 0..(MaxTasks - 1) : CardSelect(index)
    \/ ToggleSucceeded

SpecList == Init /\ [][NextList]_vars

C24_SelectionInRange ==
    /\ \/ taskList.selectedIndex = -1
       \/ /\ taskList.data # None
          /\ 0 <= taskList.selectedIndex
          /\ taskList.selectedIndex < Len(taskList.data[1])
    /\ LET after == handleToggle(taskList)
       IN after.mutated # taskList.mutated =>
             /\ taskList.data # None
             /\ taskList.selectedIndex \in 0..(Len(taskList.data[1]) - 1)
             /\ after.mutated[1].id = taskList.data[1][taskList.selectedIndex + 1].id

\* ------------------------------------- frontend: dashboard pages and TaskForm
\* The three pages (Today, Upcoming, All Tasks) are the same apart from the
\* filters they hand to TaskList.
\* handleNewTask / onNewTask: setShowTaskForm(true)
handleNewTask(p) == [p EXCEPT !.showTaskForm = TRUE]

\* handleEditTask: setEditingTask(task); setShowTaskForm(true)
handleEditTask(p, task) == [p EXCEPT !.editingTask = Some(task), !.showTaskForm = TRUE]

\* Mutant of handleCloseForm: the task being edited is remembered.
handleCloseForm_KeepEditing(p) == [p EXCEPT !.showTaskForm = FALSE]

\* handleCloseForm: setShowTaskForm(false); setEditingTask(undefined)
handleCloseForm(p) == [p EXCEPT !.showTaskForm = FALSE, !.editingTask = None]

\* {showTaskForm && <TaskForm task={editingTask} onClose={handleCloseForm} />}:
\* the form's own state after the page went from p to q.  A form that is
\* mounted starts with no error; a mutation in flight outlives its form, and
\* remembers whether its form ("form") or only its page ("page") is still there.
FormAfter(p, q, f) ==
    IF p.showTaskForm /\ q.showTaskForm
    THEN f
    ELSE [f EXCEPT !.error = None,
                   !.pending = IF @ # None /\ @[1].live = "form"
                               THEN Some([@[1] EXCEPT !.live = "page"])
                               ELSE @]

\* Mutant of onSubmit: every submit creates.
onSubmit_AlwaysCreate(task, data) ==
    [op |-> "createTask", id |-> None, body |-> FormCreateBody(data), live |-> "form"]

\* onSubmit: updateMutation.mutate(data) if isEditing (= !!task), else
\* createMutation.mutate(data); the mutationFn calls api.updateTask(task!.id, ...)
\* or api.createTask(...).
onSubmit(task, data) ==
    IF task # None
    THEN [op |-> "updateTask", id |-> task, body |-> FormUpdateBody(data), live |-> "form"]
    ELSE [op |-> "createTask", id |-> None, body |-> FormCreateBody(data), live |-> "form"]

\* Mutant of MutationOutcome: the form is closed and the list refreshed
\* whether the call succeeded or not.
MutationOutcome_AlwaysClose(ok, p, f, l) ==
    LET call == f.pending[1]
        q == IF call.live # "gone" THEN handleCloseForm(p) ELSE p
    IN [page |-> q,
        form |-> [FormAfter(p, q, f) EXCEPT !.pending = None, !.error = None,
                     !.result = Some([op |-> call.op, ok |-> ok])],
        list |-> [l EXCEPT !.fetching = (l.query # "unmounted")]]

\* createMutation / updateMutation callbacks.  onSuccess: setError(null),
\* invalidateQueries(['tasks']), onClose().  onError: setError(message).
\* The state setters of a component that is gone do nothing.
MutationOutcome(ok, p, f, l) ==
    LET call == f.pending[1]
    IN IF ok
       THEN LET q == IF call.live # "gone" THEN handleCloseForm(p) ELSE p
            IN [page |-> q,
                form |-> [FormAfter(p, q, f) EXCEPT !.pending = None, !.error = None,
                             !.result = Some([op |-> call.op, ok |-> TRUE])],
                list |-> [l EXCEPT !.fetching = (l.query # "unmounted")]]
       ELSE [page |-> p,
             form |-> [f EXCEPT !.pending = None,
                          !.error = IF call.live = "form" THEN Some("failed") ELSE @,
                          !.result = Some([op |-> call.op, ok |-> FALSE])],
             list |-> l]

\* A sidebar link to another dashboard page: that page, its TaskList and any
\* form are mounted afresh.
GoTo(route) ==
    /\ ChildrenRendered(layout)
    /\ route # dashPage.route
    /\ dashPage' = PageInit(route)
    /\ taskForm' = [taskForm EXCEPT !.error = None,
                       !.pending = IF @ # None THEN Some([@[1] EXCEPT !.live = "gone"])
                                   ELSE @]
    /\ taskList' = [ListInit EXCEPT !.query = "loading"]
    /\ UNCHANGED <<backVars, layout, chat, sh>>

\* The 'new-task' window event ('n' key) reaches the page's listener.
NewTaskEvent ==
    /\ ChildrenRendered(layout)
    /\ dashPage' = handleNewTask(dashPage)
    /\ taskForm' = FormAfter(dashPage, dashPage', taskForm)
    /\ UNCHANGED <<backVars, layout, taskList, chat, sh>>

\* The header's New Task button: onNewTask={() => setShowTaskForm(true)}
HeaderNewTask ==
    /\ ChildrenRendered(layout)
    /\ ~dashPage.showTaskForm
    /\ dashPage' = handleNewTask(dashPage)
    /\ taskForm' = FormAfter(dashPage, dashPage', taskForm)
    /\ UNCHANGED <<backVars, layout, taskList, chat, sh>>

\* onEdit={() => onEditTask?.(task)} of a card that is on screen
EditTask(index) ==
    /\ ChildrenRendered(layout)
    /\ TaskListView(taskList).kind = "cards"
    /\ index < Len(taskList.data[1])
    /\ dashPage' = handleEditTask(dashPage, taskList.data[1][index + 1].id)
    /\ taskForm' = FormAfter(dashPage, dashPage', taskForm)
    /\ UNCHANGED <<backVars, layout, taskList, chat, sh>>

\* Cancel, the close button or Escape: onClose()
CloseForm ==
    /\ dashPage.showTaskForm
    /\ dashPage' = handleCloseForm(dashPage)
    /\ taskForm' = FormAfter(dashPage, dashPage', taskForm)
    /\ UNCHANGED <<backVars, layout, taskList, chat, sh>>

\* handleSubmit(onSubmit) with data that passes taskSchema; one call in
\* flight at a time.
FormSubmit(data) ==
    /\ dashPage.showTaskForm
    /\ FormValid(data)
    /\ taskForm.pending = None
    /\ taskForm' = [taskForm EXCEPT !.pending = Some(onSubmit(dashPage.editingTask, data))]
    /\ UNCHANGED <<backVars, layout, dashPage, taskList, chat, sh>>

\* The API call of the mutation in flight succeeds or fails.
MutationSettled(ok) ==
    /\ taskForm.pending # None
    /\ LET out == MutationOutcome(ok, dashPage, taskForm, taskList)
       IN /\ dashPage' = out.page
          /\ taskForm' = out.form
          /\ taskList' = out.list
    /\ UNCHANGED <<backVars, layout, chat, sh>>

NextPage ==
    \/ \E authed \in BOOLEAN : LayoutMount(authed)
    \/ \E ts \in FetchedLists : QueryResolve(ts)
    \/ \E ts \in FetchedLists : Refetch(ts)
    \/ \E route \in {"today", "upcoming", "all"} : GoTo(route)
    \/ NewTaskEvent
    \/ HeaderNewTask
    \/ \E index \in 0..(MaxTasks - 1) : EditTask(index)
    \/ CloseForm
    \/ \E data \in {d \in FormData : d.tags = <<>>} : FormSubmit(data)
    \/ \E ok \in BOOLEAN : MutationSettled(ok)

SpecPage == Init /\ [][NextPage]_vars

\* C22: a valid submit starts exactly one API call, chosen by the task prop:
\* api.updateTask with that task's id when a task is provided, api.createTask
\* with the entered title when none is.
C22_SubmitFollowsMode ==
    dashPage.showTaskForm =>
        \A data \in FormData :
            FormValid(data) =>
                LET call == onSubmit(dashPage.editingTask, data)
                IN IF dashPage.editingTask # None
                   THEN /\ call.op = "updateTask"
                        /\ call.id = dashPage.editingTask
                   ELSE /\ call.op = "createTask"
                        /\ call.body.title = data.title

C22_Witness ==
    /\ dashPage.showTaskForm
    /\ dashPage.editingTask = Some(2)
    /\ taskForm.pending # None
    /\ taskForm.pending[1].op = "updateTask"
    /\ taskForm.pending[1].id = Some(2)
    /\ taskForm.pending[1].live = "form"

\* C23: when api.isAuthenticated() was false at the layout's mount, the layout
\* asked for /login, still shows the placeholder and none of its children was
\* ever mounted; children are on screen only after the check answered true.
C23_NoChildrenUnlessAuthenticated ==
    /\ layout.authed = Some(FALSE) =>
          /\ layout.pushed = Some("/login")
          /\ layout.isLoading
          /\ ~ChildrenRendered(layout)
          /\ taskList = ListInit
          /\ dashPage = PageInit("today")
    /\ ChildrenRendered(layout) => layout.authed = Some(TRUE)

C23_Witness ==
    /\ layout.authed = Some(FALSE)
    /\ layout.pushed = Some("/login")

\* C25: editingTask is undefined whenever the form is hidden, so the form the
\* new-task event or the New Task button opens from there is in create mode.
C25_HiddenFormHasNoTask ==
    ~dashPage.showTaskForm =>
        /\ dashPage.editingTask = None
        /\ handleNewTask(dashPage).showTaskForm
        /\ handleNewTask(dashPage).editingTask = None

C25_Witness ==
    /\ dashPage.route = "upcoming"
    /\ dashPage.showTaskForm
    /\ dashPage.editingTask = None
    /\ taskForm.result = Some([op |-> "updateTask", ok |-> TRUE])
    /\ taskForm.pending = None

\* C26: a call that fails leaves the form open, sets the error, does not call
\* onClose and does not invalidate the task list; a call that succeeds closes
\* the form and invalidates the 'tasks' queries.
C26_CloseOnlyOnSuccess ==
    [][(taskForm.pending # None /\ taskForm'.pending = None) =>
          IF taskForm'.result[1].ok
          THEN /\ taskForm.pending[1].live # "gone" =>
                     (~dashPage'.showTaskForm /\ dashPage'.editingTask = None)
               /\ taskList.query # "unmounted" => taskList'.fetching
          ELSE /\ dashPage' = dashPage
               /\ taskList' = taskList
               /\ taskForm.pending[1].live = "form" =>
                     (dashPage'.showTaskForm /\ taskForm'.error # None)]_vars

C26_Witness ==
    /\ dashPage.showTaskForm
    /\ taskForm.error # None
    /\ taskForm.pending = None
    /\ taskForm.result = Some([op |-> "createTask", ok |-> FALSE])
    /\ ~taskList.fetching

\* ---------------------------------------------------- frontend: the chat page
\* What streamChat can yield; any sequence of these, then the stream ends or
\* throws.
StreamEvents ==
    {[event |-> "conversation_id", data |-> "c1"],
     [event |-> "message", data |-> "a"],
     [event |-> "done", data |-> ""]}

\* handleSendMessage up to its first await: without a token it returns at
\* once; else it appends the user message, sets isLoading, empties
\* streamingContent and starts to consume the stream with content = ''.
handleSendMessage(c, message, token) ==
    IF ~token
    THEN c
    ELSE [c EXCEPT !.messages = Append(@, [role |-> "user", content |-> message]),
                   !.isLoading = TRUE,
                   !.streamingContent = <<>>,
                   !.streams = Append(@, [content |-> <<>>, seen |-> 0]),
                   !.sent = @ + 1,
                   !.cleared = FALSE]

\* Mutant of handleSubmit: isLoading is not looked at.
handleSubmit_WhileLoading(c, input, token) ==
    IF IsBlank(input) THEN c ELSE handleSendMessage(c, Trim(input), token)

\* ChatInterface.handleSubmit: if (!input.trim() || isLoading) return;
\* await onSendMessage(input.trim())
handleSubmit(c, input, token) ==
    IF IsBlank(input) \/ c.isLoading
    THEN c
    ELSE handleSendMessage(c, Trim(input), token)

\* The form is submitted with some input, a token being in localStorage or not.
SendMessage(input, token) ==
    /\ chat.sent < MaxSends
    /\ chat' = handleSubmit(chat, input, token)
    /\ UNCHANGED <<backVars, layout, dashPage, taskForm, taskList, sh>>

\* One turn of `for await (const event of streamChat(...))` in the k-th call
\* that is consuming a stream: the switch on event.event.
StreamEvent(k, ev) ==
    /\ k \in DOMAIN chat.streams
    /\ chat.streams[k].seen < MaxEvents
    /\ LET content == IF ev.event = "message"
                      THEN Append(chat.streams[k].content, ev.data)
                      ELSE chat.streams[k].content
           c == [chat EXCEPT !.streams[k] = [content |-> content, seen |-> @.seen + 1]]
       IN chat' =
            CASE ev.event = "conversation_id" ->
                   [c EXCEPT !.conversationId = Some(ev.data)]
              [] ev.event = "message" ->
                   [c EXCEPT !.streamingContent = content]
              [] ev.event = "done" ->
                   [c EXCEPT !.messages = Append(@, [role |-> "assistant",
                                                     content |-> content]),
                             !.streamingContent = <<>>]
    /\ UNCHANGED <<backVars, layout, dashPage, taskForm, taskList, sh>>

\* The stream of the k-th call ends, or throws: catch appends the error message,
\* finally does setIsLoading(false).
StreamClosed(k, failed) ==
    /\ k \in DOMAIN chat.streams
    /\ chat' = [chat EXCEPT
                  !.messages = IF failed
                               THEN Append(@, [role |-> "assistant",
                                               content |-> <<"Sorry">>])
                               ELSE @,
                  !.isLoading = FALSE,
                  !.streams = [j \in 1..(Len(@) - 1) |-> IF j < k THEN @[j] ELSE @[j + 1]]]
    /\ UNCHANGED <<backVars, layout, dashPage, taskForm, taskList, sh>>

\* handleClear, from the Clear button, which is never disabled.
ClearChat ==
    /\ chat' = [chat EXCEPT !.messages = <<>>, !.conversationId = None,
                            !.streamingContent = <<>>, !.cleared = TRUE]
    /\ UNCHANGED <<backVars, layout, dashPage, taskForm, taskList, sh>>

NextChat ==
    \/ \E input \in {<<" ">>, <<"h", " ">>}, token \in BOOLEAN : SendMessage(input, token)
    \/ \E k \in 1..MaxSends, ev \in StreamEvents : StreamEvent(k, ev)
    \/ \E k \in 1..MaxSends, failed \in BOOLEAN : StreamClosed(k, failed)
    \/ ClearChat

SpecChat == Init /\ [][NextChat]_vars

\* C27: at most one exchange is in flight, isLoading is true exactly while one
\* is, and a submit while isLoading is true starts nothing.
C27_OneExchangeAtATime ==
    /\ Len(chat.streams) <= 1
    /\ chat.isLoading <=> (chat.streams # <<>>)
    /\ chat.isLoading =>
          \A input \in {<<" ">>, <<"h", " ">>}, token \in BOOLEAN :
              handleSubmit(chat, input, token) = chat

C27_Witness ==
    /\ ~chat.isLoading
    /\ chat.sent = 2
    /\ chat.streams = <<>>
    /\ Len(chat.messages) = 4
    /\ chat.messages[4].content = <<"Sorry">>

\* C28: once the exchange has ended (isLoading is false again), no streamed
\* text is left on display.
C28_NoTextLeftAfterExchange ==
    ~chat.isLoading => chat.streamingContent = <<>>

\* C29: from Clear until the next message is sent, messages, conversationId
\* and streamingContent stay empty.
C29_ClearedStaysCleared ==
    chat.cleared =>
        /\ chat.messages = <<>>
        /\ chat.conversationId = None
        /\ chat.streamingContent = <<>>

\* ------------------------------------------------ the deployment test script
\* test_endpoint NAME URL EXPECTED: curl's %{http_code} ("000" when curl
\* fails) is compared with EXPECTED; the function returns 0 or 1.
test_endpoint(response, expected) == IF response = expected THEN 0 ELSE 1

\* The script is started in some environment: how many pods are not running
\* and what each of the three endpoints answers.
RunScript(e) ==
    /\ sh.pc = "idle"
    /\ sh' = [sh EXCEPT !.pc = "check_pods", !.env = Some(e)]
    /\ UNCHANGED <<backVars, layout, dashPage, taskForm, taskList, chat>>

\* check_pods under set -e: its return 1 ends the script with status 1.
CheckPods ==
    /\ sh.pc = "check_pods"
    /\ sh' = IF sh.env[1].notRunning > 0
             THEN [sh EXCEPT !.pc = "exited", !.code = Some(1),
                             !.out = Append(@, [line |-> "pods not running", n |-> 0])]
             ELSE [sh EXCEPT !.pc = "port_forward",
                             !.out = Append(@, [line |-> "pods running", n |-> 0])]
    /\ UNCHANGED <<backVars, layout, dashPage, taskForm, taskList, chat>>

\* ERRORS=0; kubectl port-forward ... & for the backend and the frontend
StartPortForwards ==
    /\ sh.pc = "port_forward"
    /\ sh' = [sh EXCEPT !.pc = "test", !.ERRORS = 0, !.pf = {"PF_BACKEND", "PF_FRONTEND"},
                        !.out = Append(@, [line |-> "port forwards", n |-> 0])]
    /\ UNCHANGED <<backVars, layout, dashPage, taskForm, taskList, chat>>

\* test_endpoint ... || ((ERRORS++)), for the next of the three endpoints.
\* ((ERRORS++)) has status 1 when the value of the expression, the old ERRORS,
\* is 0; it is the last command of the || list, so under set -e the script
\* ends there with that status.
TestEndpoint ==
    /\ sh.pc = "test"
    /\ LET done == Cardinality({k \in DOMAIN sh.out : sh.out[k].line = "tested"})
           response == sh.env[1].codes[done + 1]
           tested == [sh EXCEPT !.out = Append(@, [line |-> "tested", n |-> done + 1]),
                                !.pc = IF done + 1 = 3 THEN "cleanup" ELSE "test"]
       IN sh' = IF test_endpoint(response, "200") = 0
                THEN tested
                ELSE IF sh.ERRORS = 0
                     THEN [tested EXCEPT !.ERRORS = @ + 1, !.pc = "exited", !.code = Some(1)]
                     ELSE [tested EXCEPT !.ERRORS = @ + 1]
    /\ UNCHANGED <<backVars, layout, dashPage, taskForm, taskList, chat>>

\* kill $PF_BACKEND $PF_FRONTEND 2>/dev/null || true
Cleanup ==
    /\ sh.pc = "cleanup"
    /\ sh' = [sh EXCEPT !.pc = "summary", !.pf = {}]
    /\ UNCHANGED <<backVars, layout, dashPage, taskForm, taskList, chat>>

\* The summary: "All tests passed!" and exit 0, or "$ERRORS test(s) failed"
\* and exit 1.
Summary ==
    /\ sh.pc = "summary"
    /\ sh' = IF sh.ERRORS = 0
             THEN [sh EXCEPT !.pc = "exited", !.code = Some(0),
                             !.out = Append(@, [line |-> "All tests passed!", n |-> 0])]
             ELSE [sh EXCEPT !.pc = "exited", !.code = Some(1),
                             !.out = Append(@, [line |-> "test(s) failed", n |-> sh.ERRORS])]
    /\ UNCHANGED <<backVars, layout, dashPage, taskForm, taskList, chat>>

NextDeploy ==
    \/ \E e \in [notRunning : {0, 1}, codes : [1..3 -> {"200", "000", "503"}]] : RunScript(e)
    \/ CheckPods
    \/ StartPortForwards
    \/ TestEndpoint
    \/ Cleanup
    \/ Summary

SpecDeploy == Init /\ [][NextDeploy]_vars

\* C30: once the port forwards are started, the script exits only after it
\* killed them and printed the summary; it exits 0 exactly when all three
\* checks got the expected code, and else exits 1 after reporting how many
\* checks failed.
C30_CleanupAndSummaryOnEveryExit ==
    (sh.pc = "exited" /\ \E k \in DOMAIN sh.out : sh.out[k].line = "port forwards") =>
        LET failed == Cardinality({k \in 1..3 : sh.env[1].codes[k] # "200"})
        IN /\ sh.pf = {}
           /\ (sh.code = Some(0)) <=> (failed = 0)
           /\ failed = 0 => sh.out[Len(sh.out)].line = "All tests passed!"
           /\ failed > 0 =>
                 /\ sh.code = Some(1)
                 /\ sh.out[Len(sh.out)] = [line |-> "test(s) failed", n |-> failed]

====
